---- MODULE Spec2Model ----
(***************************************************************************)
(* Model of the ISS Sky Scanner position-prediction engine                 *)
(* (cloud_functions/iss_api_generate_predictions and the history store it  *)
(* reads) and of the retrieval of its batches                              *)
(* (cloud_functions/iss_api_bff_web_predictions).                          *)
(*                                                                         *)
(* Units.  Instants are whole seconds since an epoch that lies on an hour  *)
(* boundary (history timestamps come from an integer Unix timestamp, so    *)
(* they carry no fraction).  Every timestamp string has the form that      *)
(* datetime.isoformat() gives a UTC datetime, as the ingestion writes it   *)
(* and passes it on; for such strings the store's string order is the      *)
(* order of the instants.  Latitudes, longitudes and the inclination are   *)
(* in hundredths of a degree, the orbital period in hundredths of a        *)
(* minute, the mean motion in hundredths of a revolution per day.  Angles  *)
(* handed to the trigonometric functions are whole degrees; sines and      *)
(* cosines are scaled by 10000.  Intervals are in seconds.                 *)
(***************************************************************************)
EXTENDS Integers, Sequences, FiniteSets, TLC

----------------------------------------------------------------------------
(* Bounds of the model                                                     *)

\* largest number of documents in iss_loc_history
MaxHistory == 2
\* how many times the external TLE source changes its answer
MaxTleChanges == 1
\* the invocations that can be in flight at the same time
Procs == {1, 2}

----------------------------------------------------------------------------
(* Program constants                                                       *)

DEFAULT_INCLINATION == 5160
DEFAULT_ORBITAL_PERIOD == 9290
DEFAULT_TIME_INTERVAL == 300
collection_name == "iss_loc_predictions"

----------------------------------------------------------------------------
(* Arithmetic helpers                                                      *)

Abs(x) == IF x < 0 THEN -x ELSE x

\* Python's max(lo, min(hi, x))
Clamp(lo, hi, x) == IF x < lo THEN lo ELSE IF x > hi THEN hi ELSE x

\* quotient rounded toward zero, the nearest a scaled integer gets to a float quotient
Quot(a, b) == IF (a < 0) = (b < 0) THEN Abs(a) \div Abs(b) ELSE -(Abs(a) \div Abs(b))

\* sin(d degrees) * 10000 for d = 0..90 (index d+1)
SinTab ==
  <<0, 175, 349, 523, 698, 872, 1045, 1219, 1392, 1564, 1736, 1908, 2079,
    2250, 2419, 2588, 2756, 2924, 3090, 3256, 3420, 3584, 3746, 3907, 4067,
    4226, 4384, 4540, 4695, 4848, 5000, 5150, 5299, 5446, 5592, 5736, 5878,
    6018, 6157, 6293, 6428, 6561, 6691, 6820, 6947, 7071, 7193, 7314, 7431,
    7547, 7660, 7771, 7880, 7986, 8090, 8192, 8290, 8387, 8480, 8572, 8660,
    8746, 8829, 8910, 8988, 9063, 9135, 9205, 9272, 9336, 9397, 9455, 9511,
    9563, 9613, 9659, 9703, 9744, 9781, 9816, 9848, 9877, 9903, 9925, 9945,
    9962, 9976, 9986, 9994, 9998, 10000>>

\* atan(r / 100) in whole degrees for r = 0..100 (index r+1)
AtanTab ==
  <<0, 1, 1, 2, 2, 3, 3, 4, 5, 5, 6, 6, 7, 7, 8, 9, 9, 10, 10, 11, 11, 12,
    12, 13, 13, 14, 15, 15, 16, 16, 17, 17, 18, 18, 19, 19, 20, 20, 21, 21,
    22, 22, 23, 23, 24, 24, 25, 25, 26, 26, 27, 27, 27, 28, 28, 29, 29, 30,
    30, 31, 31, 31, 32, 32, 33, 33, 33, 34, 34, 35, 35, 35, 36, 36, 37, 37,
    37, 38, 38, 38, 39, 39, 39, 40, 40, 40, 41, 41, 41, 42, 42, 42, 43, 43,
    43, 44, 44, 44, 44, 45, 45>>

\* math.sin of an angle in whole degrees, scaled by 10000
SinDeg(d) ==
  LET a == d % 360
  IN  IF a <= 90 THEN SinTab[a + 1]
      ELSE IF a <= 180 THEN SinTab[180 - a + 1]
      ELSE IF a <= 270 THEN -SinTab[a - 180 + 1]
      ELSE -SinTab[360 - a + 1]

\* math.cos of an angle in whole degrees, scaled by 10000
CosDeg(d) == SinDeg(d + 90)

\* math.asin of x / 10000, in whole degrees within [-90, 90]
AsinDeg(x) ==
  LET m == Abs(x)
      d == CHOOSE k \in 0..90 :
             /\ SinTab[k + 1] <= m
             /\ (k = 90 \/ SinTab[k + 2] > m)
  IN  IF x < 0 THEN -d ELSE d

\* math.atan2(y, x) in whole degrees within [-180, 180]
Atan2Deg(y, x) ==
  LET ay == Abs(y)
      ax == Abs(x)
      first == IF ax = 0 /\ ay = 0 THEN 0
               ELSE IF ay <= ax THEN AtanTab[((ay * 100) \div ax) + 1]
               ELSE 90 - AtanTab[((ax * 100) \div ay) + 1]
      upper == IF x >= 0 THEN first ELSE 180 - first
  IN  IF y >= 0 THEN upper ELSE -upper

----------------------------------------------------------------------------
(* OrbitalParameterProvider: fetch_tle_data, load_tle_parameters           *)

\* A response of the TLE source: the request fails, or it returns a text
\* of `lines` lines whose third line (TLE line 2) has `nfields` fields;
\* `inc` is its field 2 and `mm` its field 7.  A field is a token that
\* float() rejects (numeric = FALSE), NaN, or a number.
Token(numeric, nan, value) == [numeric |-> numeric, nan |-> nan, value |-> value]
TleResponse(net_ok, lines, nfields, inc, mm) ==
  [net_ok |-> net_ok, lines |-> lines, nfields |-> nfields, inc |-> inc, mm |-> mm]

\* the ISS elements: inclination 51.64 degrees, 15.49 revolutions per day
LiveTle == TleResponse(TRUE, 3, 9, Token(TRUE, FALSE, 5164), Token(TRUE, FALSE, 1549))
\* the source is unreachable
DownTle == TleResponse(FALSE, 0, 0, Token(FALSE, FALSE, 0), Token(FALSE, FALSE, 0))

\* _default_params with the period of a 90-minute orbit
_default_params_round_period ==
  [inclination |-> DEFAULT_INCLINATION, orbital_period |-> 9000]

_default_params ==
  [inclination |-> DEFAULT_INCLINATION, orbital_period |-> DEFAULT_ORBITAL_PERIOD]

\* None when the request raises or the text has fewer than 3 lines
fetch_tle_data(resp) ==
  IF ~resp.net_ok THEN [found |-> FALSE]
  ELSE IF resp.lines < 3 THEN [found |-> FALSE]
  ELSE [found |-> TRUE, nfields |-> resp.nfields, inc |-> resp.inc, mm |-> resp.mm]

\* load_tle_parameters without the validation of the inclination
load_tle_parameters_unvalidated(resp) ==
  LET tle_data == fetch_tle_data(resp)
  IN  IF ~tle_data.found THEN _default_params
      ELSE IF tle_data.nfields < 8 THEN _default_params
      ELSE IF ~tle_data.inc.numeric \/ ~tle_data.mm.numeric THEN _default_params
      ELSE
        LET inc == tle_data.inc
            mm  == tle_data.mm
            orbital_period ==
              IF ~mm.nan /\ mm.value > 0
                THEN (24 * 60 * 100 * 100) \div mm.value
                ELSE DEFAULT_ORBITAL_PERIOD
            period ==
              IF orbital_period <= 0 THEN DEFAULT_ORBITAL_PERIOD ELSE orbital_period
        IN  [inclination |-> inc.value, orbital_period |-> period]

load_tle_parameters(resp) ==
  LET tle_data == fetch_tle_data(resp)
  IN  IF ~tle_data.found THEN _default_params
      ELSE IF tle_data.nfields < 8 THEN _default_params
      \* float(fields[2]) or float(fields[7]) raises ValueError
      ELSE IF ~tle_data.inc.numeric \/ ~tle_data.mm.numeric THEN _default_params
      ELSE
        LET inc == tle_data.inc
            mm  == tle_data.mm
            \* (24 * 60) / mean_motion if mean_motion > 0 else DEFAULT_ORBITAL_PERIOD
            orbital_period ==
              IF ~mm.nan /\ mm.value > 0
                THEN (24 * 60 * 100 * 100) \div mm.value
                ELSE DEFAULT_ORBITAL_PERIOD
            inclination ==
              IF inc.nan \/ inc.value <= 0 \/ inc.value > 9000
                THEN DEFAULT_INCLINATION ELSE inc.value
            period ==
              IF orbital_period <= 0 THEN DEFAULT_ORBITAL_PERIOD ELSE orbital_period
        IN  [inclination |-> inclination, orbital_period |-> period]

----------------------------------------------------------------------------
(* OrbitalPhaseModel                                                       *)

RECURSIVE WrapDown(_)
WrapDown(lon) == IF lon > 18000 THEN WrapDown(lon - 36000) ELSE lon

RECURSIVE WrapUp(_)
WrapUp(lon) == IF lon < -18000 THEN WrapUp(lon + 36000) ELSE lon

\* the two while loops, in order
normalize_longitude(lon) == WrapUp(WrapDown(lon))

\* calculate_orbital_phase with the descending branch pi + principal_phase
calculate_orbital_phase_adds_on_descent(current_lat, lat_velocity, inclination) ==
  LET normalized_lat  == Clamp(-10000, 10000, Quot(current_lat * 10000, inclination))
      principal_phase == AsinDeg(normalized_lat)
      current_phase ==
        IF lat_velocity >= 0
          THEN IF current_lat >= 0 THEN principal_phase
                                   ELSE 360 + principal_phase
          ELSE 180 + principal_phase
  IN  current_phase % 360

\* phase in whole degrees within [0, 360)
calculate_orbital_phase(current_lat, lat_velocity, inclination) ==
  LET normalized_lat  == Clamp(-10000, 10000, Quot(current_lat * 10000, inclination))
      principal_phase == AsinDeg(normalized_lat)
      current_phase ==
        IF lat_velocity >= 0
          THEN IF current_lat >= 0 THEN principal_phase
                                   ELSE 360 + principal_phase
          ELSE 180 - principal_phase
  IN  current_phase % 360

\* longitude of the ascending node in hundredths of a degree
calculate_ascending_node_longitude(current_lon, current_phase, inclination) ==
  LET inc_deg    == inclination \div 100
      sin_phase  == SinDeg(current_phase)
      cos_phase  == CosDeg(current_phase)
      lon_offset == Atan2Deg(Quot(sin_phase * CosDeg(inc_deg), 10000), cos_phase)
  IN  normalize_longitude(current_lon - lon_offset * 100)

----------------------------------------------------------------------------
(* PositionPredictor.predict                                               *)

\* predict_position; `resp` is what the TLE source answers to the fetch that
\* this call makes (utils.py:247)
predict_position(current_lat, current_lon, previous_lat, previous_lon, minutes_ahead, time_interval, resp) ==
  LET tle_params     == load_tle_parameters(resp)
      inclination    == tle_params.inclination
      orbital_period == tle_params.orbital_period
      inc_deg        == inclination \div 100
      \* degrees per minute, scaled by 100 * 60
      lat_velocity   == ((current_lat - previous_lat) * 60) \div time_interval
      current_phase  == calculate_orbital_phase(current_lat, lat_velocity, inclination)
      ascending_node_lon ==
        calculate_ascending_node_longitude(current_lon, current_phase, inclination)
      \* omega_orbital * minutes_ahead = 360 * minutes_ahead / orbital_period degrees
      future_phase   == (current_phase + (360 * minutes_ahead * 100) \div orbital_period) % 360
      predicted_lat  == Quot(inclination * SinDeg(future_phase), 10000)
      sin_future     == SinDeg(future_phase)
      cos_future     == CosDeg(future_phase)
      future_lon_offset == Atan2Deg(Quot(sin_future * CosDeg(inc_deg), 10000), cos_future)
      \* omega_earth * minutes_ahead = minutes_ahead / 4 degrees
      node_drift     == -(minutes_ahead * 25)
      future_node_lon == ascending_node_lon + node_drift
      predicted_lon  == normalize_longitude(future_node_lon + future_lon_offset * 100)
  IN  [latitude |-> predicted_lat, longitude |-> predicted_lon]

----------------------------------------------------------------------------
(* Timestamps                                                              *)

\* datetime fields of an instant
Minute(t) == (t \div 60) % 60
Second(t) == t % 60

\* round_timestamp_to_5_minutes without second=0
round_timestamp_keeps_seconds(t) ==
  LET rounded_minutes == (Minute(t) \div 5) * 5
  IN  t - Minute(t) * 60 + rounded_minutes * 60

\* round_timestamp_to_5_minutes:
\* dt.replace(minute=(dt.minute // 5) * 5, second=0, microsecond=0)
round_timestamp_to_5_minutes(t) ==
  LET rounded_minutes == (Minute(t) \div 5) * 5
  IN  t - Minute(t) * 60 - Second(t) + rounded_minutes * 60

\* range(start, stop, step) as a sequence
Range(start, stop, step) ==
  [k \in 1..((stop - start + step - 1) \div step) |-> start + (k - 1) * step]

\* for minutes_ahead in range(5, 100, 5)
MinutesAhead == Range(5, 100, 5)

----------------------------------------------------------------------------
(* State                                                                   *)

VARIABLES
  iss_loc_history,      \* the documents of collection iss_loc_history
  iss_loc_predictions,  \* the documents of collection iss_loc_predictions
  tle_source,           \* what the external TLE source currently answers
  tle_changes,          \* how often the TLE source has changed its answer
  inv,                  \* the invocations of generate_predictions
  params,               \* what a call of load_tle_parameters returned
  bff,                  \* the invocation of get_all_predictions_data
  call                  \* the call of a function of the orbit or key arithmetic

vars == <<iss_loc_history, iss_loc_predictions, tle_source, tle_changes, inv, params, bff, call>>

\* the value None
None == [none |-> TRUE]

\* an optional number: <<>> is None, <<x>> is the number x
NoNumber == <<>>
Number(x) == <<x>>

\* no function of the orbit or key arithmetic is being called
NoCall == [fn |-> "none"]

----------------------------------------------------------------------------
(* Inputs                                                                  *)

\* the times at which the ingestion function runs
IngestTimes == {1802, 3602, 3900, 3902}

\* the position the upstream API reports: latitude -0.50, longitude -1.20
IngestPosition == [latitude |-> -50, longitude |-> -120]

\* A request body of iss_api_generate_predictions.  ts_iso tells whether
\* datetime.fromisoformat accepts the timestamp, numeric whether latitude
\* and longitude are numbers.
Request(timestamp, ts_iso, latitude, longitude, numeric, document_id, location, country_code) ==
  [timestamp |-> timestamp, ts_iso |-> ts_iso, latitude |-> latitude,
   longitude |-> longitude, numeric |-> numeric, document_id |-> document_id,
   location |-> location, country_code |-> country_code]

\* two fixes of the same 5-minute bucket, a malformed timestamp and a
\* latitude that is no number
Requests ==
  { Request(3902, TRUE, 0, 0, TRUE, "fixA", "Gulf of Guinea", ""),
    Request(3907, TRUE, -100, 250, TRUE, "fixB", "Gabon", "GA"),
    Request(3902, FALSE, 0, 0, TRUE, "fixA", "Gulf of Guinea", ""),
    Request(3907, TRUE, 0, 0, FALSE, "fixB", "Gabon", "GA") }

\* the values datetime.now() takes when a batch is stamped
GeneratedAt == {4000, 4001}

----------------------------------------------------------------------------
(* The keyed document store                                                *)

\* set() that appends a document instead of replacing the one of that id
DocumentSetAppends(collection, id, data) ==
  collection \cup {[id |-> id, data |-> data]}

\* collection.document(id).set(data): the document with that id is replaced
\* as a whole
DocumentSet(collection, id, data) ==
  {d \in collection : d.id # id} \cup {[id |-> id, data |-> data]}

\* collection.document().set(data): a new document with a fresh id
DocumentAdd(collection, data) ==
  collection \cup {[id |-> Cardinality(collection) + 1, data |-> data]}

----------------------------------------------------------------------------
(* iss_api_store_realtime_loc: the ingestion of ground fixes               *)

\* the document store_error_entry writes at time now
ErrorEntry(now) ==
  [timestamp |-> round_timestamp_to_5_minutes(now), is_error_entry |-> TRUE,
   latitude |-> NoNumber, longitude |-> NoNumber]

\* the document store_iss_location writes for a ground fix
GroundFix(timestamp, latitude, longitude) ==
  [timestamp |-> timestamp, is_error_entry |-> FALSE,
   latitude |-> Number(latitude), longitude |-> Number(longitude)]

\* store_error_entry: a failure to write is logged and swallowed
store_error_entry(collection, now, write_ok) ==
  IF write_ok THEN DocumentAdd(collection, ErrorEntry(now)) ELSE collection

\* time does not run backwards between two runs of the ingestion
Later(now) == \A d \in iss_loc_history : d.data.timestamp <= now

\* store_iss_location.  fetch_ok: get_iss_location returned a location;
\* write_ok, err1_ok, err2_ok: whether the writes to the store succeed.
store_iss_location(now, fetch_ok, write_ok, err1_ok, err2_ok) ==
  LET after ==
        IF ~fetch_ok
          \* get_iss_location stored an error entry, store_iss_location
          \* stores one more
          THEN store_error_entry(store_error_entry(iss_loc_history, now, err1_ok),
                                 now, err2_ok)
        ELSE IF write_ok
          THEN DocumentAdd(iss_loc_history,
                           GroundFix(now, IngestPosition.latitude, IngestPosition.longitude))
        ELSE store_error_entry(iss_loc_history, now, err1_ok)
  IN  /\ Later(now)
      /\ Cardinality(after) <= MaxHistory
      /\ after # iss_loc_history
      /\ iss_loc_history' = after
      /\ UNCHANGED <<iss_loc_predictions, tle_source, tle_changes, inv, params, bff, call>>

StoreIssLocation ==
  \E now \in IngestTimes, fetch_ok, write_ok, err1_ok, err2_ok \in BOOLEAN :
    store_iss_location(now, fetch_ok, write_ok, err1_ok, err2_ok)

----------------------------------------------------------------------------
(* The external TLE source                                                 *)

TleResponses == {LiveTle, DownTle}

TleChange ==
  /\ tle_changes < MaxTleChanges
  /\ \E resp \in TleResponses \ {tle_source} : tle_source' = resp
  /\ tle_changes' = tle_changes + 1
  /\ UNCHANGED <<iss_loc_history, iss_loc_predictions, inv, params, bff, call>>

\* What field 2 of TLE line 2 can be: a token float() rejects, NaN, zero, a
\* negative number, the ISS inclination, 90 degrees, more than 90 degrees.
InclinationTokens ==
  { Token(FALSE, FALSE, 0), Token(TRUE, TRUE, 0), Token(TRUE, FALSE, 0),
    Token(TRUE, FALSE, -5164), Token(TRUE, FALSE, 5164),
    Token(TRUE, FALSE, 9000), Token(TRUE, FALSE, 9001) }

\* What field 7 can be: a token float() rejects, NaN, zero, a negative
\* number, the ISS mean motion.
MeanMotionTokens ==
  { Token(FALSE, FALSE, 0), Token(TRUE, TRUE, 0), Token(TRUE, FALSE, 0),
    Token(TRUE, FALSE, -1549), Token(TRUE, FALSE, 1549) }

\* every outcome of the request to the TLE source: a network error, or a
\* text of 0 to 3 lines whose third line has 7, 8 or 9 fields
TleOutcomes ==
  { TleResponse(net_ok, lines, nfields, inc, mm) :
      net_ok \in BOOLEAN, lines \in 0..3, nfields \in 7..9,
      inc \in InclinationTokens, mm \in MeanMotionTokens }

\* one call of load_tle_parameters
LoadTleParameters ==
  /\ params = None
  /\ params' = load_tle_parameters(tle_source)
  /\ UNCHANGED <<iss_loc_history, iss_loc_predictions, tle_source, tle_changes, inv, bff, call>>

----------------------------------------------------------------------------
(* iss_api_bff_web_predictions: the retrieval of predictions               *)

\* dict.get(field, default)
Get(rec, field, default) == IF field \in DOMAIN rec THEN rec[field] ELSE default

\* a task that has not returned; an invocation that has not started
Pending == [pc |-> "pending"]
BffIdle == [pc |-> "idle", current |-> Pending, historical |-> Pending, result |-> None]

\* the values datetime.now() takes in the retrieval: 02:05:00 and 02:05:02
Nows == {7500, 7502}

\* the horizons of get_historical_predictions, in minutes
Horizons == {90, 60, 30}

\* bff round_timestamp_to_5_minutes; the except clause returns the
\* timestamp as it came, and is not reached for the isoformat of a datetime
bff_round_timestamp_to_5_minutes(t) ==
  LET rounded_minutes == (Minute(t) \div 5) * 5
  IN  t - Minute(t) * 60 - Second(t) + rounded_minutes * 60

\* whether datetime.fromisoformat accepts the timestamp of a prediction
Parses(pred) == Get(pred, "ts_iso", TRUE)

\* pred.copy() with pred_with_source['source_timestamp'] = source_timestamp
WithSource(pred, source_timestamp) ==
  [f \in DOMAIN pred \cup {"source_timestamp"} |->
     IF f = "source_timestamp" THEN source_timestamp ELSE pred[f]]

\* list.sort(key=timestamp): a stable sort, ascending
RECURSIVE Insert(_, _)
Insert(sorted, x) ==
  IF sorted = <<>> THEN <<x>>
  ELSE IF Head(sorted).timestamp <= x.timestamp
    THEN <<Head(sorted)>> \o Insert(Tail(sorted), x)
    ELSE <<x>> \o sorted

RECURSIVE SortByTimestamp(_)
SortByTimestamp(list) ==
  IF list = <<>> THEN <<>>
  ELSE Insert(SortByTimestamp(SubSeq(list, 1, Len(list) - 1)), list[Len(list)])

\* order_by('source_timestamp', DESCENDING) over a collection
RECURSIVE Descending(_)
Descending(docs) ==
  IF docs = {} THEN <<>>
  ELSE LET d == CHOOSE d \in docs :
                  \A e \in docs : e.data.source_timestamp <= d.data.source_timestamp
       IN  <<d>> \o Descending(docs \ {d})

\* .limit(n)
Limit(list, n) == SubSeq(list, 1, IF Len(list) < n THEN Len(list) ELSE n)

\* FuturePredictions that keeps the predictions stamped with current_time
FuturePredictionsFromNow(predictions, source_timestamp, current_time) ==
  LET future == SelectSeq(predictions,
                  LAMBDA pred : /\ "timestamp" \in DOMAIN pred
                                /\ Parses(pred)
                                /\ pred.timestamp >= current_time)
  IN  [k \in 1..Len(future) |-> WithSource(future[k], source_timestamp)]

\* utils.py:178-203 and 235-253: the predictions of a document that have a
\* timestamp, parse and lie after current_time, each with the document's
\* source_timestamp
FuturePredictions(predictions, source_timestamp, current_time) ==
  LET future == SelectSeq(predictions,
                  LAMBDA pred : /\ "timestamp" \in DOMAIN pred
                                /\ Parses(pred)
                                /\ pred.timestamp > current_time)
  IN  [k \in 1..Len(future) |-> WithSource(future[k], source_timestamp)]

\* method = pred.get('method', 'orbital_mechanics')
IsSgp4(pred) == Get(pred, "method", "orbital_mechanics") = "sgp4"

\* the future predictions of the documents, in the order of the documents
RECURSIVE Aggregate(_, _)
Aggregate(docs, current_time) ==
  IF docs = <<>> THEN <<>>
  ELSE FuturePredictions(Get(Head(docs).data, "predictions", <<>>),
                         Head(docs).data.source_timestamp, current_time)
         \o Aggregate(Tail(docs), current_time)

\* utils.py:205-216 and 255-262: the two lists, sorted, and their count
Predictions(all) ==
  LET orbital_mechanics_all == SortByTimestamp(SelectSeq(all, LAMBDA pred : ~IsSgp4(pred)))
      sgp4_all == SortByTimestamp(SelectSeq(all, LAMBDA pred : IsSgp4(pred)))
  IN  [orbital_mechanics |-> orbital_mechanics_all,
       sgp4 |-> sgp4_all,
       prediction_count |-> Len(orbital_mechanics_all) + Len(sgp4_all)]

\* get_all_predictions.  current_time, later: what datetime.now() gives on
\* the primary and on the fallback path; query_ok, fallback_ok: whether
\* the queries go through.  It returns None when both queries fail.
get_all_predictions(current_time, later, query_ok, fallback_ok) ==
  IF query_ok
    THEN [pc |-> "done", current_time |-> current_time, fallback |-> FALSE,
          result |-> Predictions(
                       Aggregate(Limit(Descending(iss_loc_predictions), 1), current_time))]
  ELSE IF fallback_ok
    THEN [pc |-> "done", current_time |-> later, fallback |-> TRUE,
          result |-> Predictions(
                       Aggregate(Limit(Descending(iss_loc_predictions), 50), later))]
  ELSE [pc |-> "done", current_time |-> later, fallback |-> TRUE, result |-> None]

\* get_predictions_for_timestamp without its except clause: a failed read
\* raises
get_predictions_for_timestamp_raises(timestamp, read_ok) ==
  LET rounded_timestamp == bff_round_timestamp_to_5_minutes(timestamp)
      docs == {d \in iss_loc_predictions : d.id = rounded_timestamp}
  IN  IF ~read_ok THEN [raised |-> TRUE]
      ELSE IF docs = {} THEN None
      ELSE LET data == (CHOOSE d \in docs : TRUE).data
               predictions == Get(data, "predictions", <<>>)
               sgp4_predictions ==
                 SelectSeq(predictions, LAMBDA pred : Get(pred, "method", "") = "sgp4")
           IN  [orbital_mechanics |->
                  SelectSeq(predictions,
                            LAMBDA pred : Get(pred, "method", "") = "orbital_mechanics"),
                sgp4 |-> IF sgp4_predictions # <<>> THEN sgp4_predictions[1] ELSE None,
                source_timestamp |-> data.source_timestamp,
                prediction_count |-> Len(predictions)]

\* get_predictions_for_timestamp: the document stored under the floored
\* timestamp; None when there is none or the read raises
get_predictions_for_timestamp(timestamp, read_ok) ==
  LET rounded_timestamp == bff_round_timestamp_to_5_minutes(timestamp)
      docs == {d \in iss_loc_predictions : d.id = rounded_timestamp}
  IN  IF ~read_ok THEN None
      ELSE IF docs = {} THEN None
      ELSE LET data == (CHOOSE d \in docs : TRUE).data
               predictions == Get(data, "predictions", <<>>)
               sgp4_predictions ==
                 SelectSeq(predictions, LAMBDA pred : Get(pred, "method", "") = "sgp4")
           IN  [orbital_mechanics |->
                  SelectSeq(predictions,
                            LAMBDA pred : Get(pred, "method", "") = "orbital_mechanics"),
                sgp4 |-> IF sgp4_predictions # <<>> THEN sgp4_predictions[1] ELSE None,
                source_timestamp |-> data.source_timestamp,
                prediction_count |-> Len(predictions)]

\* the element _process_historical_prediction appends
Projected(pred, pred_data) ==
  [timestamp |-> pred.timestamp,
   latitude |-> Get(pred, "latitude", None),
   longitude |-> Get(pred, "longitude", None),
   source_timestamp |-> pred_data.source_timestamp]

\* _process_historical_prediction without the 90-minute window
_process_historical_prediction_unfiltered(pred_data, cutoff_time, current_time) ==
  IF pred_data = None THEN <<>>
  ELSE LET window == SelectSeq(pred_data.orbital_mechanics,
                       LAMBDA pred : "timestamp" \in DOMAIN pred /\ Parses(pred))
       IN  [k \in 1..Len(window) |-> Projected(window[k], pred_data)]

\* _process_historical_prediction that puts each element in front
_process_historical_prediction_prepends(pred_data, cutoff_time, current_time) ==
  IF pred_data = None THEN <<>>
  ELSE LET window == SelectSeq(pred_data.orbital_mechanics,
                       LAMBDA pred : /\ "timestamp" \in DOMAIN pred
                                     /\ Parses(pred)
                                     /\ pred.timestamp >= cutoff_time
                                     /\ pred.timestamp <= current_time)
       IN  [k \in 1..Len(window) |-> Projected(window[Len(window) + 1 - k], pred_data)]

\* _process_historical_prediction: the predictions within
\* [cutoff_time, current_time], in the order of the document
_process_historical_prediction(pred_data, cutoff_time, current_time) ==
  IF pred_data = None THEN <<>>
  ELSE LET window == SelectSeq(pred_data.orbital_mechanics,
                       LAMBDA pred : /\ "timestamp" \in DOMAIN pred
                                     /\ Parses(pred)
                                     /\ pred.timestamp >= cutoff_time
                                     /\ pred.timestamp <= current_time)
       IN  [k \in 1..Len(window) |-> Projected(window[k], pred_data)]

\* time_min_ago without the 5 minutes between a batch and its first point
time_min_ago_unshifted(current_time, h) == current_time - h * 60

\* time_90min_ago, time_60min_ago, time_30min_ago: current_time minus 95,
\* 65 and 35 minutes
time_min_ago(current_time, h) == current_time - (h + 5) * 60

\* iss_api_bff_web get_historical_predictions: time_90min_ago,
\* time_60min_ago, time_30min_ago are current_time minus 90, 60 and 30
\* minutes
bff_web_time_min_ago(current_time, h) == current_time - h * 60

\* iss_api_bff_web get_historical_predictions, whose
\* round_timestamp_to_5_minutes, get_predictions_for_timestamp and
\* _process_historical_prediction are those of iss_api_bff_web_predictions
\* line for line; read_ok[h] tells whether the lookup for h goes through
bff_web_get_historical_predictions(current_time, read_ok) ==
  LET cutoff_time == current_time - 90 * 60
      rounded(h) == bff_round_timestamp_to_5_minutes(bff_web_time_min_ago(current_time, h))
      predictions(h) ==
        _process_historical_prediction(
          get_predictions_for_timestamp(rounded(h), read_ok[h]), cutoff_time, current_time)
  IN  [predictions_90min_ago |-> predictions(90),
       predictions_60min_ago |-> predictions(60),
       predictions_30min_ago |-> predictions(30)]

\* the submitted tasks run until the executor is left
TasksRun == bff.pc \in {"running", "joined"}

\* utils.py:407-413 and 437-444: the two tasks are submitted; when the
\* executor cannot be set up the exception is caught and the error result
\* returned
GetAllPredictionsData ==
  /\ bff.pc = "idle"
  /\ \E executor_ok \in BOOLEAN :
       IF executor_ok
         THEN bff' = [bff EXCEPT !.pc = "running"]
         ELSE bff' = [bff EXCEPT !.pc = "done",
                        !.result = [status |-> "error",
                                    error |-> "Error getting prediction data",
                                    predictions |-> None,
                                    historical_predictions |-> None]]
  /\ UNCHANGED <<iss_loc_history, iss_loc_predictions, tle_source, tle_changes, inv, params, call>>

\* the task of get_all_predictions runs
GetAllPredictions ==
  /\ TasksRun
  /\ bff.current = Pending
  /\ \E current_time \in Nows, later \in Nows, query_ok, fallback_ok \in BOOLEAN :
       /\ current_time <= later
       /\ bff' = [bff EXCEPT !.current =
                    get_all_predictions(current_time, later, query_ok, fallback_ok)]
  /\ UNCHANGED <<iss_loc_history, iss_loc_predictions, tle_source, tle_changes, inv, params, call>>

\* utils.py:310-341: the task of get_historical_predictions takes the time
\* and submits the three lookups
GetHistoricalPredictions ==
  /\ TasksRun
  /\ bff.historical = Pending
  /\ \E current_time \in Nows :
       bff' = [bff EXCEPT !.historical =
                 [pc |-> "lookup",
                  current_time |-> current_time,
                  cutoff_time |-> current_time - 90 * 60,
                  rounded |-> [h \in Horizons |->
                     bff_round_timestamp_to_5_minutes(time_min_ago(current_time, h))],
                  read_ok |-> [h \in Horizons |-> TRUE],
                  pred_data |-> [h \in Horizons |-> Pending],
                  result |-> None]]
  /\ UNCHANGED <<iss_loc_history, iss_loc_predictions, tle_source, tle_changes, inv, params, call>>

\* GetPredictionsForTimestamp that creates the document it does not find
GetPredictionsForTimestampCreates(h) ==
  /\ TasksRun
  /\ bff.historical.pc = "lookup"
  /\ bff.historical.pred_data[h] = Pending
  /\ \E read_ok \in BOOLEAN :
       /\ bff' = [bff EXCEPT !.historical.read_ok[h] = read_ok,
                             !.historical.pred_data[h] =
                                get_predictions_for_timestamp(bff.historical.rounded[h], read_ok)]
       /\ iss_loc_predictions' =
            IF read_ok /\ \A d \in iss_loc_predictions : d.id # bff.historical.rounded[h]
              THEN iss_loc_predictions \cup
                     {[id |-> bff.historical.rounded[h],
                       data |-> [source_timestamp |-> bff.historical.rounded[h],
                                 predictions |-> <<>>]]}
              ELSE iss_loc_predictions
  /\ UNCHANGED <<iss_loc_history, tle_source, tle_changes, inv, params, call>>

\* one of the three lookups returns
GetPredictionsForTimestamp(h) ==
  /\ TasksRun
  /\ bff.historical.pc = "lookup"
  /\ bff.historical.pred_data[h] = Pending
  /\ \E read_ok \in BOOLEAN :
       bff' = [bff EXCEPT !.historical.read_ok[h] = read_ok,
                          !.historical.pred_data[h] =
                             get_predictions_for_timestamp(bff.historical.rounded[h], read_ok)]
  /\ UNCHANGED <<iss_loc_history, iss_loc_predictions, tle_source, tle_changes, inv, params, call>>

\* utils.py:344-396: the lookups are joined and their results processed; an
\* exception out of future.result() is caught and None returned
ProcessHistorical ==
  /\ TasksRun
  /\ bff.historical.pc = "lookup"
  /\ \A h \in Horizons : bff.historical.pred_data[h] # Pending
  /\ LET t == bff.historical
         predictions(h) ==
           _process_historical_prediction(t.pred_data[h], t.cutoff_time, t.current_time)
     IN  IF \E h \in Horizons : "raised" \in DOMAIN t.pred_data[h]
           THEN bff' = [bff EXCEPT !.historical.pc = "done"]
           ELSE bff' = [bff EXCEPT !.historical.pc = "done",
                          !.historical.result =
                             [predictions_90min_ago |-> predictions(90),
                              predictions_60min_ago |-> predictions(60),
                              predictions_30min_ago |-> predictions(30)]]
  /\ UNCHANGED <<iss_loc_history, iss_loc_predictions, tle_source, tle_changes, inv, params, call>>

\* utils.py:415-433: the results are collected; a task that has not
\* returned within its timeout leaves None
Join ==
  /\ bff.pc = "running"
  /\ bff' = [bff EXCEPT !.pc = "joined",
               !.result =
                  [status |-> "success",
                   predictions |->
                     IF bff.current.pc = "done" THEN bff.current.result ELSE None,
                   historical_predictions |->
                     IF bff.historical.pc = "done" THEN bff.historical.result ELSE None]]
  /\ UNCHANGED <<iss_loc_history, iss_loc_predictions, tle_source, tle_changes, inv, params, call>>

\* ExecutorExit with shutdown(wait=False): the tasks are left running
ExecutorExitNoWait ==
  /\ bff.pc = "joined"
  /\ bff' = [bff EXCEPT !.pc = "done"]
  /\ UNCHANGED <<iss_loc_history, iss_loc_predictions, tle_source, tle_changes, inv, params, call>>

\* utils.py:411 and 435: leaving the with block is shutdown(wait=True), it
\* waits for both tasks; then the result is returned
ExecutorExit ==
  /\ bff.pc = "joined"
  /\ bff.current.pc = "done"
  /\ bff.historical.pc = "done"
  /\ bff' = [bff EXCEPT !.pc = "done"]
  /\ UNCHANGED <<iss_loc_history, iss_loc_predictions, tle_source, tle_changes, inv, params, call>>

----------------------------------------------------------------------------
(* iss_api_generate_predictions: generate_predictions                      *)

\* an invocation that has not started
Idle ==
  [pc |-> "idle", req |-> None, rounded_timestamp |-> 0,
   previous_location |-> None, interval |-> 0, time_interval |-> 0,
   predictions |-> <<>>, tle_params |-> <<>>, doc_data |-> None,
   result |-> None]

\* the return values
Success(document_id, prediction_count) ==
  [status |-> "success", document_id |-> document_id,
   prediction_count |-> prediction_count]
Error(error) == [error |-> error]

MissingPrevious == Error("previous location not found")
InvalidInterval == Error("Invalid time interval")
\* the message of the except clause of generate_predictions
Raised == Error("Error generating predictions")

Return(p, result) ==
  inv' = [inv EXCEPT ![p].pc = "done", ![p].result = result]

\* get_previous_location with <= in place of < in the query
get_previous_location_inclusive(source_timestamp, read_ok) ==
  LET before == {d \in iss_loc_history : d.data.timestamp <= source_timestamp}
      docs   == {d \in before : \A e \in before : e.data.timestamp <= d.data.timestamp}
  IN  IF ~read_ok \/ docs = {} THEN {None}
      ELSE {[timestamp |-> d.data.timestamp,
             latitude  |-> d.data.latitude,
             longitude |-> d.data.longitude] : d \in docs}

\* get_previous_location reading the most recent entry that carries a
\* position, the error entries passed over
get_previous_location_skips_errors(source_timestamp, read_ok) ==
  LET before == {d \in iss_loc_history : /\ d.data.timestamp < source_timestamp
                                         /\ d.data.latitude # NoNumber}
      docs   == {d \in before : \A e \in before : e.data.timestamp <= d.data.timestamp}
  IN  IF ~read_ok \/ docs = {} THEN {None}
      ELSE {[timestamp |-> d.data.timestamp,
             latitude  |-> d.data.latitude,
             longitude |-> d.data.longitude] : d \in docs}

\* get_previous_location: the values it can return for a source timestamp.
\* The query orders by timestamp only; among documents of equal timestamp
\* the store decides which comes first.  A failed read gives None.
get_previous_location(source_timestamp, read_ok) ==
  LET before == {d \in iss_loc_history : d.data.timestamp < source_timestamp}
      docs   == {d \in before : \A e \in before : e.data.timestamp <= d.data.timestamp}
  IN  IF ~read_ok \/ docs = {} THEN {None}
      ELSE {[timestamp |-> d.data.timestamp,
             latitude  |-> d.data.latitude,
             longitude |-> d.data.longitude] : d \in docs}

\* utils.py:384-392: the timestamp is floored and parsed
Begin(p) ==
  /\ inv[p].pc = "idle"
  /\ \E req \in Requests :
       IF ~req.ts_iso
         THEN inv' = [inv EXCEPT ![p].pc = "done", ![p].req = req,
                                 ![p].result = Raised]
         ELSE inv' = [inv EXCEPT ![p].pc = "get_previous_location", ![p].req = req,
                                 ![p].rounded_timestamp =
                                    round_timestamp_to_5_minutes(req.timestamp)]
  /\ UNCHANGED <<iss_loc_history, iss_loc_predictions, tle_source, tle_changes, params, bff, call>>

\* utils.py:394-405: the previous fix is read from the history
GetPreviousLocation(p) ==
  /\ inv[p].pc = "get_previous_location"
  /\ \E read_ok \in BOOLEAN :
       \E previous_location \in get_previous_location(inv[p].req.timestamp, read_ok) :
         IF previous_location = None
           THEN Return(p, MissingPrevious)
         \* formatting a latitude of None raises TypeError
         ELSE IF previous_location.latitude = NoNumber
           THEN inv' = [inv EXCEPT ![p].pc = "done",
                                   ![p].previous_location = previous_location,
                                   ![p].result = Raised]
         ELSE inv' = [inv EXCEPT ![p].pc = "time_interval",
                                 ![p].previous_location = previous_location]
  /\ UNCHANGED <<iss_loc_history, iss_loc_predictions, tle_source, tle_changes, params, bff, call>>

\* TimeInterval with the soft correction applied to every unusual interval,
\* the non-positive ones included
TimeIntervalCorrectsAll(p) ==
  /\ inv[p].pc = "time_interval"
  /\ LET time_interval == inv[p].rounded_timestamp - inv[p].previous_location.timestamp
     IN  inv' = [inv EXCEPT ![p].pc = "predict", ![p].interval = time_interval,
                            ![p].time_interval =
                               IF time_interval <= 0 \/ time_interval > 30 * 60
                                 THEN DEFAULT_TIME_INTERVAL
                                 ELSE time_interval]
  /\ UNCHANGED <<iss_loc_history, iss_loc_predictions, tle_source, tle_changes, params, bff, call>>

\* TimeInterval without the soft correction of intervals above 30 minutes
TimeIntervalKeepsGap(p) ==
  /\ inv[p].pc = "time_interval"
  /\ LET time_interval == inv[p].rounded_timestamp - inv[p].previous_location.timestamp
     IN  IF time_interval <= 0
           THEN inv' = [inv EXCEPT ![p].pc = "done", ![p].interval = time_interval,
                                   ![p].result = InvalidInterval]
           ELSE inv' = [inv EXCEPT ![p].pc = "predict", ![p].interval = time_interval,
                                   ![p].time_interval = time_interval]
  /\ UNCHANGED <<iss_loc_history, iss_loc_predictions, tle_source, tle_changes, params, bff, call>>

\* utils.py:407-422: the interval between the floored source timestamp and
\* the previous fix, in seconds
TimeInterval(p) ==
  /\ inv[p].pc = "time_interval"
  /\ LET time_interval == inv[p].rounded_timestamp - inv[p].previous_location.timestamp
     IN  IF time_interval <= 0
           THEN inv' = [inv EXCEPT ![p].pc = "done", ![p].interval = time_interval,
                                   ![p].result = InvalidInterval]
           ELSE inv' = [inv EXCEPT ![p].pc = "predict", ![p].interval = time_interval,
                                   ![p].time_interval =
                                      IF time_interval > 30 * 60
                                        THEN DEFAULT_TIME_INTERVAL
                                        ELSE time_interval]
  /\ UNCHANGED <<iss_loc_history, iss_loc_predictions, tle_source, tle_changes, params, bff, call>>

\* one prediction of the batch
Prediction(minutes_ahead, source_dt_rounded, prediction_result) ==
  [minutes_ahead  |-> minutes_ahead,
   timestamp      |-> source_dt_rounded + minutes_ahead * 60,
   timestamp_unix |-> source_dt_rounded + minutes_ahead * 60,
   latitude       |-> prediction_result.latitude,
   longitude      |-> prediction_result.longitude,
   method         |-> "orbital_mechanics"]

\* utils.py:427-451: one iteration of the loop; predict_position fetches the
\* TLE parameters and raises TypeError when the source position is no number
PredictPoint(p) ==
  /\ inv[p].pc = "predict"
  /\ LET k             == Len(inv[p].predictions) + 1
         minutes_ahead == MinutesAhead[k]
         req           == inv[p].req
         previous      == inv[p].previous_location
     IN  IF ~req.numeric
           THEN inv' = [inv EXCEPT ![p].pc = "done", ![p].result = Raised,
                          ![p].tle_params = Append(@, load_tle_parameters(tle_source))]
           ELSE inv' = [inv EXCEPT
                  ![p].pc = IF k = Len(MinutesAhead) THEN "store" ELSE "predict",
                  ![p].tle_params = Append(@, load_tle_parameters(tle_source)),
                  ![p].predictions = Append(@,
                     Prediction(minutes_ahead, inv[p].rounded_timestamp,
                       predict_position(req.latitude, req.longitude,
                                        previous.latitude[1], previous.longitude[1],
                                        minutes_ahead, inv[p].time_interval,
                                        tle_source)))]
  /\ UNCHANGED <<iss_loc_history, iss_loc_predictions, tle_source, tle_changes, params, bff, call>>

\* DocData with source_timestamp_unix taken from the clock, not the source
DocDataStampedNow(req, rounded_timestamp, predictions, generated_at) ==
  [source_timestamp      |-> rounded_timestamp,
   source_timestamp_unix |-> generated_at,
   source_document_id    |-> req.document_id,
   source_document_ref   |-> <<"iss_loc_history", req.document_id>>,
   source_latitude       |-> req.latitude,
   source_longitude      |-> req.longitude,
   source_location       |-> req.location,
   source_country_code   |-> req.country_code,
   predictions           |-> predictions,
   prediction_count      |-> Len(predictions),
   generated_at          |-> generated_at]

\* utils.py:459-472: the document of the batch
DocData(req, rounded_timestamp, predictions, generated_at) ==
  [source_timestamp      |-> rounded_timestamp,
   source_timestamp_unix |-> rounded_timestamp,
   source_document_id    |-> req.document_id,
   source_document_ref   |-> <<"iss_loc_history", req.document_id>>,
   source_latitude       |-> req.latitude,
   source_longitude      |-> req.longitude,
   source_location       |-> req.location,
   source_country_code   |-> req.country_code,
   predictions           |-> predictions,
   prediction_count      |-> Len(predictions),
   generated_at          |-> generated_at]

\* DocumentId with the source timestamp as it came, not floored
DocumentIdUnrounded(req, rounded_timestamp) == req.timestamp

\* the id of the document a batch is stored under
DocumentId(req, rounded_timestamp) == rounded_timestamp

\* Store with the exception raised after the write went through
StoreThenRaise(p) ==
  /\ inv[p].pc = "store"
  /\ \E write_ok \in BOOLEAN, generated_at \in GeneratedAt :
       LET doc_data == DocData(inv[p].req, inv[p].rounded_timestamp,
                               inv[p].predictions, generated_at)
           id       == DocumentId(inv[p].req, inv[p].rounded_timestamp)
       IN  /\ iss_loc_predictions' = DocumentSet(iss_loc_predictions, id, doc_data)
           /\ inv' = [inv EXCEPT ![p].pc = "done", ![p].doc_data = doc_data,
                        ![p].result = IF write_ok
                                        THEN Success(id, Len(inv[p].predictions))
                                        ELSE Raised]
  /\ UNCHANGED <<iss_loc_history, tle_source, tle_changes, params, bff, call>>

\* utils.py:456-489: the batch is written under the floored timestamp; a
\* failed write raises and leaves the collection as it was
Store(p) ==
  /\ inv[p].pc = "store"
  /\ \E write_ok \in BOOLEAN, generated_at \in GeneratedAt :
       LET doc_data == DocData(inv[p].req, inv[p].rounded_timestamp,
                               inv[p].predictions, generated_at)
           id       == DocumentId(inv[p].req, inv[p].rounded_timestamp)
       IN  IF write_ok
             THEN /\ iss_loc_predictions' = DocumentSet(iss_loc_predictions, id, doc_data)
                  /\ inv' = [inv EXCEPT ![p].pc = "done", ![p].doc_data = doc_data,
                               ![p].result = Success(id, Len(inv[p].predictions))]
             ELSE /\ UNCHANGED iss_loc_predictions
                  /\ inv' = [inv EXCEPT ![p].pc = "done", ![p].doc_data = doc_data,
                               ![p].result = Raised]
  /\ UNCHANGED <<iss_loc_history, tle_source, tle_changes, params, bff, call>>

----------------------------------------------------------------------------
(* Specifications                                                          *)

\* the steps of the invocations that are in flight
Step(p) ==
  \/ GetPreviousLocation(p)
  \/ TimeInterval(p)
  \/ PredictPoint(p)
  \/ Store(p)

Init ==
  /\ iss_loc_history = {}
  /\ iss_loc_predictions = {}
  /\ tle_source \in TleResponses
  /\ tle_changes = 0
  /\ inv = [p \in Procs |-> Idle]
  /\ params = None
  /\ bff = BffIdle
  /\ call = NoCall

\* no invocation has started yet; the lowest number starts first
First(p) == \A q \in Procs : inv[q].pc = "idle" /\ p <= q

\* Spec: one invocation of generate_predictions, while the ingestion writes
\* the history; the TLE source keeps the answer it starts with
BeginFirst == \E p \in Procs : First(p) /\ Begin(p)
Run == \E p \in Procs : Step(p)

Next ==
  \/ StoreIssLocation
  \/ BeginFirst
  \/ Run

Spec == Init /\ [][Next]_vars

\* histories the ingestion leaves behind: the fix of 01:00:02 alone, or
\* followed by the fix of 01:05:02
IngestedHistories ==
  LET first == DocumentAdd({}, GroundFix(3602, IngestPosition.latitude,
                                         IngestPosition.longitude))
  IN  {first,
       DocumentAdd(first, GroundFix(3902, IngestPosition.latitude,
                                    IngestPosition.longitude))}

InitIngested ==
  /\ iss_loc_history \in IngestedHistories
  /\ iss_loc_predictions = {}
  /\ tle_source \in TleResponses
  /\ tle_changes = 0
  /\ inv = [p \in Procs |-> Idle]
  /\ params = None
  /\ bff = BffIdle
  /\ call = NoCall

\* every invocation with a lower number has returned, none with a higher
\* number has started
InTurn(p) ==
  \A q \in Procs \ {p} : IF q < p THEN inv[q].pc = "done" ELSE inv[q].pc = "idle"

\* SpecRepeat: the invocations run one after the other over a history that
\* is already written, while the TLE source changes its answer
BeginInTurn == \E p \in Procs : InTurn(p) /\ Begin(p)

NextRepeat ==
  \/ TleChange
  \/ BeginInTurn
  \/ Run

SpecRepeat == InitIngested /\ [][NextRepeat]_vars

\* SpecConcurrent: the invocations start at any time and their steps
\* interleave; the TLE source keeps its answer
BeginAny == \E p \in Procs : Begin(p)

NextConcurrent ==
  \/ BeginAny
  \/ Run

SpecConcurrent == InitIngested /\ [][NextConcurrent]_vars

\* The batch generate_predictions stores for the fix taken 2 seconds into a
\* bucket, the fix before it being IngestPosition 5 minutes earlier.
GeneratedBatch(bucket) ==
  LET req == Request(bucket + 2, TRUE, bucket \div 60, 0, TRUE, "fix", "Gulf of Guinea", "")
      predictions ==
        [k \in 1..Len(MinutesAhead) |->
           Prediction(MinutesAhead[k], bucket,
                      predict_position(req.latitude, req.longitude,
                                       IngestPosition.latitude, IngestPosition.longitude,
                                       MinutesAhead[k], DEFAULT_TIME_INTERVAL, LiveTle))]
  IN  [id |-> DocumentId(req, bucket),
       data |-> DocData(req, bucket, predictions, bucket + 3)]

\* A document that generate_predictions did not write: its predictions
\* are out of order, one has no timestamp, one a timestamp that does not
\* parse, one the method sgp4, one lies far before and one far after the
\* source.
ForeignBatch(bucket) ==
  LET point(t, method) ==
        [timestamp |-> t, latitude |-> 100, longitude |-> 200, method |-> method]
  IN  [id |-> bucket,
       data |->
        [source_timestamp |-> bucket,
         predictions |->
           << point(bucket + 600, "orbital_mechanics"),
              point(bucket + 300, "orbital_mechanics"),
              [latitude |-> 100, longitude |-> 200, method |-> "orbital_mechanics"],
              [timestamp |-> bucket + 900, ts_iso |-> FALSE, latitude |-> 100,
               longitude |-> 200, method |-> "orbital_mechanics"],
              point(bucket + 1200, "sgp4"),
              point(bucket - 1600, "orbital_mechanics"),
              point(bucket + 4000, "orbital_mechanics") >>]]

\* the contents of iss_loc_predictions the retrieval runs over: for each
\* of the buckets 00:30, 01:00, 01:30 and 02:00 no document or a generated
\* batch, for 01:00 and 02:00 also a foreign document
PredictionStores ==
  { a \cup b \cup c \cup d :
      a \in {{}, {GeneratedBatch(1800)}},
      b \in {{}, {GeneratedBatch(3600)}, {ForeignBatch(3600)}},
      c \in {{}, {GeneratedBatch(5400)}},
      d \in {{}, {GeneratedBatch(7200)}, {ForeignBatch(7200)}} }

\* SpecRetrieve: one call of get_all_predictions_data over a store that is
\* already written; its two tasks and the three lookups interleave
InitRetrieve ==
  /\ iss_loc_history = {}
  /\ iss_loc_predictions \in PredictionStores
  /\ tle_source = LiveTle
  /\ tle_changes = 0
  /\ inv = [p \in Procs |-> Idle]
  /\ params = None
  /\ bff = BffIdle
  /\ call = NoCall

Lookup == \E h \in Horizons : GetPredictionsForTimestamp(h)

NextRetrieve ==
  \/ GetAllPredictionsData
  \/ GetAllPredictions
  \/ GetHistoricalPredictions
  \/ Lookup
  \/ ProcessHistorical
  \/ Join
  \/ ExecutorExit

SpecRetrieve == InitRetrieve /\ [][NextRetrieve]_vars

\* SpecProvider: one call of load_tle_parameters for each outcome of the
\* request to the TLE source
InitProvider ==
  /\ iss_loc_history = {}
  /\ iss_loc_predictions = {}
  /\ tle_source \in TleOutcomes
  /\ tle_changes = 0
  /\ inv = [p \in Procs |-> Idle]
  /\ params = None
  /\ bff = BffIdle
  /\ call = NoCall

NextProvider == LoadTleParameters

SpecProvider == InitProvider /\ [][NextProvider]_vars

----------------------------------------------------------------------------
(* normalize_longitude, statement by statement                             *)

\* A float: an ordinary value v in hundredths of a degree (huge = 0), or a
\* value of magnitude 2^63 or more with the sign `huge`, such as 1e19, the
\* spacing of whose neighbours exceeds 720.
Float(v) == [huge |-> 0, v |-> v]
HugeFloat(sign) == [huge |-> sign, v |-> 0]

\* lon > bound and lon < bound
FloatGreater(lon, bound) == lon.huge = 1 \/ (lon.huge = 0 /\ lon.v > bound)
FloatLess(lon, bound) == lon.huge = -1 \/ (lon.huge = 0 /\ lon.v < bound)

\* lon -= 360 and lon += 360 in binary64: the sum is rounded to the nearest
\* float, which for a huge lon is lon itself
FloatAdd(lon, d) == IF lon.huge # 0 THEN lon ELSE Float(lon.v + d)

\* the longitudes normalize_longitude is called with: up to two and a half
\* turns either way, the ends of the range and their neighbours, and the
\* huge floats
Longitudes ==
  {Float(k * 1500) : k \in -60..60}
    \cup {Float(v) : v \in {-54001, -18001, 1, 17999, 18001, 54001}}
    \cup {HugeFloat(1), HugeFloat(-1)}

\* the call normalize_longitude(lon), before its first statement; `odd`
\* tells whether the loops have run an odd number of iterations so far
NormalizeCall(lon) ==
  [fn |-> "normalize_longitude", pc |-> "while_above", arg |-> lon, lon |-> lon,
   odd |-> FALSE]

\* while lon > 180: lon -= 360
WhileAbove ==
  /\ call.fn = "normalize_longitude"
  /\ call.pc = "while_above"
  /\ call' = IF FloatGreater(call.lon, 18000)
               THEN [call EXCEPT !.lon = FloatAdd(call.lon, -36000), !.odd = ~@]
               ELSE [call EXCEPT !.pc = "while_below"]
  /\ UNCHANGED <<iss_loc_history, iss_loc_predictions, tle_source, tle_changes, inv, params, bff>>

\* while lon < -180: lon += 360
WhileBelow ==
  /\ call.fn = "normalize_longitude"
  /\ call.pc = "while_below"
  /\ call' = IF FloatLess(call.lon, -18000)
               THEN [call EXCEPT !.lon = FloatAdd(call.lon, 36000), !.odd = ~@]
               ELSE [call EXCEPT !.pc = "return"]
  /\ UNCHANGED <<iss_loc_history, iss_loc_predictions, tle_source, tle_changes, inv, params, bff>>

\* return lon
ReturnLon ==
  /\ call.fn = "normalize_longitude"
  /\ call.pc = "return"
  /\ call' = [call EXCEPT !.pc = "done"]
  /\ UNCHANGED <<iss_loc_history, iss_loc_predictions, tle_source, tle_changes, inv, params, bff>>

\* SpecNormalize: one call of normalize_longitude for each longitude; the
\* interpreter keeps executing the call while it has a statement to execute
InitNormalize ==
  /\ iss_loc_history = {}
  /\ iss_loc_predictions = {}
  /\ tle_source = LiveTle
  /\ tle_changes = 0
  /\ inv = [p \in Procs |-> Idle]
  /\ params = None
  /\ bff = BffIdle
  /\ call \in {NormalizeCall(lon) : lon \in Longitudes}

NextNormalize ==
  \/ WhileAbove
  \/ WhileBelow
  \/ ReturnLon

SpecNormalize == InitNormalize /\ [][NextNormalize]_vars /\ WF_vars(NextNormalize)

----------------------------------------------------------------------------
(* calculate_orbital_phase as a call                                       *)

\* latitudes in hundredths of a degree: every 5 degrees from pole to pole,
\* the neighbours of the equator and the inclinations themselves
Latitudes ==
  {k * 500 : k \in -18..18} \cup {-5164, -5160, -1, 1, 5160, 5164}

\* latitude velocities: southward, none, northward
LatVelocities == {-60, 0, 60}

\* inclinations load_tle_parameters can return: the default, a live value
\* and the ends of the range it accepts
Inclinations == {1, DEFAULT_INCLINATION, 5164, 9000}

\* the call calculate_orbital_phase(current_lat, lat_velocity, inclination)
PhaseCall(current_lat, lat_velocity, inclination) ==
  [fn |-> "calculate_orbital_phase", pc |-> "called", current_lat |-> current_lat,
   lat_velocity |-> lat_velocity, inclination |-> inclination, phase |-> NoNumber]

\* the call runs and returns the phase
CalculateOrbitalPhase ==
  /\ call.fn = "calculate_orbital_phase"
  /\ call.pc = "called"
  /\ call' = [call EXCEPT !.pc = "done",
                          !.phase = Number(calculate_orbital_phase(
                                      call.current_lat, call.lat_velocity,
                                      call.inclination))]
  /\ UNCHANGED <<iss_loc_history, iss_loc_predictions, tle_source, tle_changes, inv, params, bff>>

\* SpecPhase: one call of calculate_orbital_phase for each input
InitPhase ==
  /\ iss_loc_history = {}
  /\ iss_loc_predictions = {}
  /\ tle_source = LiveTle
  /\ tle_changes = 0
  /\ inv = [p \in Procs |-> Idle]
  /\ params = None
  /\ bff = BffIdle
  /\ call \in {PhaseCall(current_lat, lat_velocity, inclination) :
                 current_lat \in Latitudes, lat_velocity \in LatVelocities,
                 inclination \in Inclinations}

NextPhase == CalculateOrbitalPhase

SpecPhase == InitPhase /\ [][NextPhase]_vars

----------------------------------------------------------------------------
(* The keys of iss_loc_predictions as strings                              *)

\* An ISO timestamp string: the instant t in whole seconds, the fraction
\* of a second in microseconds, and how the string ends
Iso(t, micro, suffix) == [t |-> t, micro |-> micro, suffix |-> suffix]

\* iso_timestamp.replace('Z', '+00:00')
ReplaceZ(iso_timestamp) ==
  [iso_timestamp EXCEPT !.suffix = IF @ = "Z" THEN "+00:00" ELSE @]

\* datetime.fromisoformat of a string that ends in a UTC offset
fromisoformat(iso_timestamp) ==
  [t |-> iso_timestamp.t, microsecond |-> iso_timestamp.micro,
   tzinfo |-> iso_timestamp.suffix]

\* datetime.isoformat: the offset is written as +00:00
isoformat(dt) == Iso(dt.t, dt.microsecond, dt.tzinfo)

\* round_timestamp_to_5_minutes of iss_api_generate_predictions, string to
\* string
round_iso_timestamp_to_5_minutes(iso_timestamp) ==
  LET dt == fromisoformat(ReplaceZ(iso_timestamp))
      rounded_dt == [dt EXCEPT !.t = round_timestamp_to_5_minutes(dt.t),
                               !.microsecond = 0]
  IN  isoformat(rounded_dt)

\* the same of iss_api_bff_web_predictions, rounding to the nearest
\* 5-minute boundary
bff_round_iso_timestamp_to_nearest(iso_timestamp) ==
  LET dt == fromisoformat(ReplaceZ(iso_timestamp))
      rounded_dt == [dt EXCEPT !.t = bff_round_timestamp_to_5_minutes(dt.t + 150),
                               !.microsecond = 0]
  IN  isoformat(rounded_dt)

\* round_timestamp_to_5_minutes of iss_api_bff_web_predictions, string to
\* string
bff_round_iso_timestamp_to_5_minutes(iso_timestamp) ==
  LET dt == fromisoformat(ReplaceZ(iso_timestamp))
      rounded_dt == [dt EXCEPT !.t = bff_round_timestamp_to_5_minutes(dt.t),
                               !.microsecond = 0]
  IN  isoformat(rounded_dt)

\* instants around the boundaries of two neighbouring buckets
KeyInstants == {3599, 3600, 3602, 3899, 3900, 3907, 4199, 4200}

\* the instants a lookup starts from: datetime.now() minus whole minutes,
\* written with its microseconds
LookupTimestamps ==
  {Iso(t, micro, "+00:00") : t \in KeyInstants, micro \in {0, 123456}}

\* the timestamps of ground fixes: whole seconds, written by isoformat or
\* with a Z
FixTimestamps ==
  {Iso(t, 0, suffix) : t \in KeyInstants, suffix \in {"+00:00", "Z"}}

\* a batch is to be stored for the fix of timestamp s and looked up from
\* the instant t
KeysCall(t, s) ==
  [fn |-> "keys", t |-> t, s |-> s, stored_key |-> None, rounded |-> None,
   read_key |-> None]

\* generate_predictions: the id of the document it sets
StoredKey ==
  /\ call.fn = "keys"
  /\ call.stored_key = None
  /\ call' = [call EXCEPT !.stored_key = round_iso_timestamp_to_5_minutes(call.s)]
  /\ UNCHANGED <<iss_loc_history, iss_loc_predictions, tle_source, tle_changes, inv, params, bff>>

\* get_historical_predictions: the timestamp is rounded
RoundedTimestamp ==
  /\ call.fn = "keys"
  /\ call.rounded = None
  /\ call' = [call EXCEPT !.rounded = bff_round_iso_timestamp_to_5_minutes(call.t)]
  /\ UNCHANGED <<iss_loc_history, iss_loc_predictions, tle_source, tle_changes, inv, params, bff>>

\* get_predictions_for_timestamp: the rounded timestamp is rounded again
\* and is the id of the document it gets
ReadKey ==
  /\ call.fn = "keys"
  /\ call.rounded # None
  /\ call.read_key = None
  /\ call' = [call EXCEPT !.read_key = bff_round_iso_timestamp_to_5_minutes(call.rounded)]
  /\ UNCHANGED <<iss_loc_history, iss_loc_predictions, tle_source, tle_changes, inv, params, bff>>

\* SpecKeys: one batch stored and one lookup, for each pair of timestamps
InitKeys ==
  /\ iss_loc_history = {}
  /\ iss_loc_predictions = {}
  /\ tle_source = LiveTle
  /\ tle_changes = 0
  /\ inv = [p \in Procs |-> Idle]
  /\ params = None
  /\ bff = BffIdle
  /\ call \in {KeysCall(t, s) : t \in LookupTimestamps, s \in FixTimestamps}

NextKeys ==
  \/ StoredKey
  \/ RoundedTimestamp
  \/ ReadKey

SpecKeys == InitKeys /\ [][NextKeys]_vars

----------------------------------------------------------------------------
(* Vocabulary of the properties                                            *)

IsSuccess(result) == "status" \in DOMAIN result /\ result.status = "success"
IsError(result) == "error" \in DOMAIN result

Returned(p) == inv[p].pc = "done"
Succeeded(p) == Returned(p) /\ IsSuccess(inv[p].result)

\* the 5-minute boundary at or before an instant
Floor5(t) == t - (t % (5 * 60))

\* the invocation has read a previous fix that carries a position
HasPrevious(p) ==
  /\ inv[p].previous_location # None
  /\ inv[p].previous_location.latitude # NoNumber

\* the interval of the invocation: floored source time minus previous fix
Delta(p) == Floor5(inv[p].req.timestamp) - inv[p].previous_location.timestamp

\* the invocation is past the check of the interval
PastInterval(p) == inv[p].pc \in {"predict", "store", "done"} /\ HasPrevious(p)

\* the history entries strictly before an instant
Before(t) == {d \in iss_loc_history : d.data.timestamp < t}

\* the document the store holds under an id
Stored(id, data) == [id |-> id, data |-> data]

\* nothing was produced by the invocation
NothingProduced(p) ==
  /\ inv[p].predictions = <<>>
  /\ inv[p].tle_params = <<>>
  /\ inv[p].doc_data = None

----------------------------------------------------------------------------
(* Properties of generate_predictions, one invocation (Spec)               *)

\* C3: a stored batch has exactly 19 points, minutes_ahead 5, 10, ..., 95 in
\* that order, point k stamped (source time floored to 5 minutes) + 5k
\* minutes, consecutive stamps 5 minutes apart, prediction_count 19; it was
\* computed from a previous fix with a positive interval.
C3_BatchShape ==
  \A p \in Procs :
    Succeeded(p) =>
      LET d     == inv[p].doc_data
          floor == Floor5(inv[p].req.timestamp)
      IN  /\ HasPrevious(p) /\ Delta(p) > 0
          /\ Stored(floor, d) \in iss_loc_predictions
          /\ d.source_timestamp = floor
          /\ Len(d.predictions) = 19
          /\ d.prediction_count = 19
          /\ \A k \in 1..19 :
               /\ d.predictions[k].minutes_ahead = 5 * k
               /\ d.predictions[k].timestamp = floor + 5 * k * 60
               /\ d.predictions[k].timestamp_unix = d.predictions[k].timestamp
               /\ k > 1 => d.predictions[k].timestamp
                             = d.predictions[k - 1].timestamp + 5 * 60

C3_Witness ==
  \E p \in Procs :
    /\ Succeeded(p)
    /\ inv[p].req.timestamp # Floor5(inv[p].req.timestamp)
    /\ Stored(Floor5(inv[p].req.timestamp), inv[p].doc_data) \in iss_loc_predictions

\* C4: whenever the previous fix strictly precedes the current fix, the
\* invocation does not fail with the invalid-interval error.
C4_PrecedingFixIsValidInterval ==
  \A p \in Procs :
    (/\ Returned(p)
     /\ HasPrevious(p)
     /\ inv[p].previous_location.timestamp < inv[p].req.timestamp)
    => inv[p].result # InvalidInterval

\* C5: when the interval is <= 0 the invocation returns the
\* invalid-interval error, has fetched no parameters, computed no point and
\* built no batch, and the store holds nothing.
C5_NonPositiveIntervalAborts ==
  \A p \in Procs :
    (PastInterval(p) /\ Delta(p) <= 0) =>
      /\ Returned(p)
      /\ inv[p].result = InvalidInterval
      /\ NothingProduced(p)
      /\ iss_loc_predictions = {}

C5_Witness ==
  \E p \in Procs :
    /\ Returned(p) /\ HasPrevious(p)
    /\ Delta(p) = 0
    /\ inv[p].result = InvalidInterval

C7_LongIntervalUsesDefault ==
  \A p \in Procs :
    (PastInterval(p) /\ Delta(p) > 30 * 60) =>
      /\ inv[p].time_interval = DEFAULT_TIME_INTERVAL
      /\ Returned(p) =>
           \/ /\ IsSuccess(inv[p].result)
              /\ Len(inv[p].predictions) = 19
              /\ Stored(inv[p].rounded_timestamp, inv[p].doc_data)
                   \in iss_loc_predictions
           \/ /\ inv[p].result = Raised
              /\ ~inv[p].req.numeric \/ Len(inv[p].predictions) = 19
              /\ iss_loc_predictions = {}

C7_Witness ==
  \E p \in Procs :
    /\ Succeeded(p)
    /\ Delta(p) > 30 * 60
    /\ Len(inv[p].doc_data.predictions) = 19

\* C11: the step of the ingestion that stores a ground fix starts one batch
\* generation for that fix.
C11_StoredFixTriggersBatch ==
  [][\A d \in iss_loc_history' \ iss_loc_history :
       ~d.data.is_error_entry =>
         \E p \in Procs :
           /\ inv[p].pc = "idle"
           /\ inv'[p].pc # "idle"
           /\ inv'[p].req.timestamp = d.data.timestamp]_vars

----------------------------------------------------------------------------
(* Properties of repeated invocations (SpecRepeat)                         *)

\* C1: the orbital parameters are fetched once per batch, so all 19 points
\* of a stored batch are computed with the same (inclination,
\* orbital_period) pair.
C1_OneParameterPairPerBatch ==
  \A p \in Procs :
    Succeeded(p) =>
      \A i, j \in 1..Len(inv[p].tle_params) :
        inv[p].tle_params[i] = inv[p].tle_params[j]

\* C2: a step of an invocation changes the prediction store only when it is
\* the step that returns success, and then it puts one whole batch of 19
\* points under its id; every step of an invocation that returns an error
\* leaves the store as it was.
C2_ErrorLeavesStoreUnchanged ==
  [][\A p \in Procs :
       inv'[p] # inv[p] =>
         IF IsSuccess(inv'[p].result)
           THEN /\ Len(inv'[p].doc_data.predictions) = 19
                /\ iss_loc_predictions' =
                     {d \in iss_loc_predictions : d.id # inv'[p].result.document_id}
                       \cup {Stored(inv'[p].result.document_id, inv'[p].doc_data)}
           ELSE iss_loc_predictions' = iss_loc_predictions]_vars

\* the second invocation computed its 19 points and failed on the write;
\* the batch of the first is still the one stored
C2_Witness ==
  /\ Succeeded(1)
  /\ Returned(2) /\ inv[2].result = Raised
  /\ Len(inv[2].predictions) = 19
  /\ inv[2].doc_data # inv[1].doc_data
  /\ iss_loc_predictions = {Stored(inv[1].rounded_timestamp, inv[1].doc_data)}

\* the batches written so far, latest last (SpecRepeat runs the invocations
\* in the order of their numbers)
Written == {p \in Procs : Succeeded(p)}
LastWritten == CHOOSE p \in Written : \A q \in Written : q <= p

\* C8: the store holds at most one batch per 5-minute bucket, under the
\* floored source timestamp as its id, and that batch is the last one
\* written for the bucket, field for field.
C8_OneBatchPerBucket ==
  /\ \A d, e \in iss_loc_predictions :
       Floor5(d.data.source_timestamp) = Floor5(e.data.source_timestamp) => d = e
  /\ \A d \in iss_loc_predictions :
       /\ d.id = d.data.source_timestamp
       /\ d.id = Floor5(d.id)
  /\ Written # {} =>
       {d \in iss_loc_predictions :
          Floor5(d.data.source_timestamp) = Floor5(inv[LastWritten].req.timestamp)}
         = {Stored(Floor5(inv[LastWritten].req.timestamp), inv[LastWritten].doc_data)}
  /\ Written = {} => iss_loc_predictions = {}

\* two writes for one bucket from different fixes
C8_Witness ==
  /\ Succeeded(1) /\ Succeeded(2)
  /\ inv[1].req.timestamp # inv[2].req.timestamp
  /\ inv[1].doc_data.source_location # inv[2].doc_data.source_location
  /\ iss_loc_predictions = {Stored(Floor5(inv[2].req.timestamp), inv[2].doc_data)}

\* the batch without its audit stamp
Unstamped(doc_data) == [doc_data EXCEPT !.generated_at = 0]

\* both invocations built a batch
BothBuilt(p, q) ==
  /\ Returned(p) /\ Returned(q)
  /\ inv[p].doc_data # None /\ inv[q].doc_data # None

\* C9 as claimed: two invocations with the same current fix and the same
\* previous fix build batches equal in every field except generated_at.
C9_SameFixesSameBatch ==
  \A p, q \in Procs :
    (/\ BothBuilt(p, q)
     /\ inv[p].req = inv[q].req
     /\ inv[p].previous_location = inv[q].previous_location)
    => Unstamped(inv[p].doc_data) = Unstamped(inv[q].doc_data)

\* C9 as amended: ... and the same orbital parameters at each of the 19
\* fetches ...
C9_SameFixesAndParametersSameBatch ==
  \A p, q \in Procs :
    (/\ BothBuilt(p, q)
     /\ inv[p].req = inv[q].req
     /\ inv[p].previous_location = inv[q].previous_location
     /\ inv[p].tle_params = inv[q].tle_params)
    => Unstamped(inv[p].doc_data) = Unstamped(inv[q].doc_data)

\* the same batch written twice, the stamps differing
C9_Witness ==
  /\ Succeeded(1) /\ Succeeded(2)
  /\ inv[1].req = inv[2].req
  /\ inv[1].previous_location = inv[2].previous_location
  /\ inv[1].tle_params = inv[2].tle_params
  /\ inv[1].doc_data.generated_at # inv[2].doc_data.generated_at
  /\ iss_loc_predictions = {Stored(inv[2].rounded_timestamp, inv[2].doc_data)}

----------------------------------------------------------------------------
(* Properties of concurrent invocations (SpecConcurrent)                   *)

\* C10: however the steps of two invocations for one bucket interleave, the
\* store holds at most one document for the bucket, exactly one once an
\* invocation has returned success, and that document is the whole batch of
\* one invocation that returned success.
C10_ConcurrentWritesAreWhole ==
  /\ \A d, e \in iss_loc_predictions :
       Floor5(d.data.source_timestamp) = Floor5(e.data.source_timestamp) => d = e
  /\ \A d \in iss_loc_predictions :
       \E p \in Procs : Succeeded(p) /\ d = Stored(Floor5(inv[p].req.timestamp), inv[p].doc_data)
  /\ \A p \in Procs :
       Succeeded(p) =>
         \E d \in iss_loc_predictions : d.id = Floor5(inv[p].req.timestamp)

\* both invocations hold a complete batch for the same bucket at once: one
\* has written it, the other is about to write a different one
C10_Witness ==
  /\ Succeeded(2)
  /\ inv[1].pc = "store"
  /\ inv[1].rounded_timestamp = inv[2].rounded_timestamp
  /\ inv[1].req # inv[2].req
  /\ iss_loc_predictions = {Stored(inv[2].rounded_timestamp, inv[2].doc_data)}

----------------------------------------------------------------------------
(* Properties of load_tle_parameters (SpecProvider)                        *)

\* load_tle_parameters got as far as float() with two fields it accepts
Parsed(resp) ==
  /\ resp.net_ok /\ resp.lines >= 3 /\ resp.nfields >= 8
  /\ resp.inc.numeric /\ resp.mm.numeric

\* the validations of load_tle_parameters
ValidInclination(tok) == ~tok.nan /\ tok.value > 0 /\ tok.value <= 9000
ValidMeanMotion(tok) == ~tok.nan /\ tok.value > 0

\* C12: for every outcome of the TLE source the call returns a pair, never
\* an exception, with 0 < inclination <= 90 degrees and orbital_period > 0.
C12_AlwaysValidPair ==
  params # None =>
    /\ DOMAIN params = {"inclination", "orbital_period"}
    /\ params.inclination > 0
    /\ params.inclination <= 9000
    /\ params.orbital_period > 0

\* the source answered with a NaN mean motion and a negative inclination
C12_Witness ==
  /\ params # None
  /\ Parsed(tle_source)
  /\ tle_source.mm.nan
  /\ tle_source.inc.value < 0

----------------------------------------------------------------------------
(* Properties of the retrieval (SpecRetrieve)                              *)

\* the elements of a list
Elems(list) == {list[k] : k \in 1..Len(list)}

\* the list is in ascending order of its timestamps
Ascending(list) ==
  \A i, j \in 1..Len(list) : i < j => list[i].timestamp <= list[j].timestamp

\* the tasks have returned
CurrentReturned == bff.current.pc = "done" /\ bff.current.result # None
HistoricalReturned == bff.historical.pc = "done"

\* the list get_historical_predictions returned for a horizon
ListOf(result, h) ==
  IF h = 90 THEN result.predictions_90min_ago
  ELSE IF h = 60 THEN result.predictions_60min_ago
  ELSE result.predictions_30min_ago

\* the bucket whose batch predicted the position of h minutes ago
BucketOf(now, h) == Floor5(now - (h + 5) * 60)

\* the documents stored under a key
DocsAt(key) == {d \in iss_loc_predictions : d.id = key}

\* the batches generate_predictions wrote
GeneratedBatches == {GeneratedBatch(bucket) : bucket \in {1800, 3600, 5400, 7200}}

\* C14: on the primary and on the fallback path, every point that
\* get_all_predictions returns, in either list, has a timestamp after the
\* time the call took from the clock.
C14_CurrentNeverReturnsPast ==
  CurrentReturned =>
    \A pred \in Elems(bff.current.result.orbital_mechanics)
                  \cup Elems(bff.current.result.sgp4) :
      pred.timestamp > bff.current.current_time

\* the fallback path returned points while a stored point is stamped with
\* the very time the call took from the clock
C14_Witness ==
  /\ CurrentReturned
  /\ bff.current.fallback
  /\ bff.current.result.orbital_mechanics # <<>>
  /\ \E d \in iss_loc_predictions : \E pred \in Elems(d.data.predictions) :
       /\ "timestamp" \in DOMAIN pred
       /\ Parses(pred)
       /\ pred.timestamp = bff.current.current_time

\* C15: over a non-empty store of generated batches the orbital_mechanics
\* list is exactly the points of the batch with the greatest
\* source_timestamp that have method orbital_mechanics and a timestamp
\* after now, each with that batch's source_timestamp, in ascending order;
\* no point of another batch is returned.
C15_OnlyLatestBatch ==
  (/\ CurrentReturned
   /\ iss_loc_predictions # {}
   /\ iss_loc_predictions \subseteq GeneratedBatches)
  => LET latest == CHOOSE d \in iss_loc_predictions :
                     \A e \in iss_loc_predictions :
                       e.data.source_timestamp <= d.data.source_timestamp
         list == bff.current.result.orbital_mechanics
     IN  /\ Elems(list) =
              { WithSource(pred, latest.data.source_timestamp) :
                  pred \in { q \in Elems(latest.data.predictions) :
                               /\ q.method = "orbital_mechanics"
                               /\ q.timestamp > bff.current.current_time } }
         /\ Ascending(list)

\* C16: for each horizon h the lookup is for the key floor(now - (h + 5)
\* minutes, 5 minutes), and every element of the list returned for h is a
\* point of the document stored under that key.
C16_HistoricalLookupKey ==
  /\ bff.historical.pc \in {"lookup", "done"} =>
       \A h \in Horizons :
         bff.historical.rounded[h] = BucketOf(bff.historical.current_time, h)
  /\ (HistoricalReturned /\ bff.historical.result # None) =>
       \A h \in Horizons :
         \A e \in Elems(ListOf(bff.historical.result, h)) :
           \E d \in DocsAt(BucketOf(bff.historical.current_time, h)) :
             /\ e.source_timestamp = d.data.source_timestamp
             /\ \E pred \in Elems(d.data.predictions) :
                  /\ "timestamp" \in DOMAIN pred
                  /\ pred.timestamp = e.timestamp
                  /\ pred.latitude = e.latitude
                  /\ pred.longitude = e.longitude

\* the three lists come from three different batches
C16_Witness ==
  /\ HistoricalReturned /\ bff.historical.result # None
  /\ \A h \in Horizons :
       \E e \in Elems(ListOf(bff.historical.result, h)) :
         e.source_timestamp = BucketOf(bff.historical.current_time, h)
  /\ bff.historical.current_time # Floor5(bff.historical.current_time)

\* C17: every point in every list get_historical_predictions returns has a
\* timestamp from now - 90 minutes to now, both ends included.
C17_HistoricalWithinWindow ==
  (HistoricalReturned /\ bff.historical.result # None) =>
    \A h \in Horizons :
      \A e \in Elems(ListOf(bff.historical.result, h)) :
        /\ e.timestamp >= bff.historical.current_time - 90 * 60
        /\ e.timestamp <= bff.historical.current_time

\* a list holds a point of exactly now - 90 minutes and a point of exactly
\* now, and a list left out a point of its document
C17_Witness ==
  /\ HistoricalReturned /\ bff.historical.result # None
  /\ \E e \in Elems(bff.historical.result.predictions_90min_ago) :
       e.timestamp = bff.historical.current_time - 90 * 60
  /\ \E e \in Elems(bff.historical.result.predictions_90min_ago) :
       e.timestamp = bff.historical.current_time
  /\ \E d \in DocsAt(BucketOf(bff.historical.current_time, 60)) :
       /\ bff.historical.result.predictions_60min_ago # <<>>
       /\ Len(bff.historical.result.predictions_60min_ago) < Len(d.data.predictions)

\* C18: every element of every list has exactly the fields timestamp,
\* latitude, longitude and source_timestamp, and the list of a horizon
\* whose document generate_predictions wrote is in ascending order of
\* timestamp.
C18_HistoricalSortedAndProjected ==
  (HistoricalReturned /\ bff.historical.result # None) =>
    \A h \in Horizons :
      LET list == ListOf(bff.historical.result, h)
      IN  /\ \A e \in Elems(list) :
               DOMAIN e = {"timestamp", "latitude", "longitude", "source_timestamp"}
          /\ DocsAt(BucketOf(bff.historical.current_time, h)) \subseteq GeneratedBatches
               => Ascending(list)

\* the three lists come from generated batches and hold several points
C18_Witness ==
  /\ HistoricalReturned /\ bff.historical.result # None
  /\ \A h \in Horizons :
       /\ DocsAt(BucketOf(bff.historical.current_time, h)) # {}
       /\ DocsAt(BucketOf(bff.historical.current_time, h)) \subseteq GeneratedBatches
       /\ Len(ListOf(bff.historical.result, h)) > 1

\* C19: get_historical_predictions returns its three lists whatever the
\* lookups do; the list of a horizon whose lookup failed or found no
\* document is empty, and the list of every other horizon is what the
\* document under its key gives, whatever the other lookups did.
C19_LookupsIsolated ==
  HistoricalReturned =>
    /\ bff.historical.result # None
    /\ \A h \in Horizons :
         LET t == bff.historical
             key == BucketOf(t.current_time, h)
         IN  ListOf(t.result, h) =
               IF ~t.read_ok[h] \/ DocsAt(key) = {}
                 THEN <<>>
                 ELSE _process_historical_prediction(
                        get_predictions_for_timestamp(key, TRUE),
                        t.current_time - 90 * 60, t.current_time)

\* the lookup for 60 minutes failed although its document is there; the
\* lists for 90 and 30 minutes are not empty
C19_Witness ==
  /\ HistoricalReturned /\ bff.historical.result # None
  /\ ~bff.historical.read_ok[60]
  /\ bff.historical.read_ok[90] /\ bff.historical.read_ok[30]
  /\ DocsAt(BucketOf(bff.historical.current_time, 60)) \cap GeneratedBatches # {}
  /\ bff.historical.result.predictions_60min_ago = <<>>
  /\ bff.historical.result.predictions_90min_ago # <<>>
  /\ bff.historical.result.predictions_30min_ago # <<>>

\* C20: the result of get_all_predictions_data holds a structure in both
\* slots, never None: two lists and a count, and three lists.
C20_SlotsNeverNull ==
  bff.pc = "done" =>
    /\ bff.result.predictions # None
    /\ DOMAIN bff.result.predictions = {"orbital_mechanics", "sgp4", "prediction_count"}
    /\ bff.result.historical_predictions # None
    /\ DOMAIN bff.result.historical_predictions =
         {"predictions_90min_ago", "predictions_60min_ago", "predictions_30min_ago"}

\* C21: the status of the result is "error", with a message, when both
\* slots are degraded, and "success" when at most one is.
C21_StatusTellsDegradation ==
  bff.pc = "done" =>
    IF bff.result.predictions = None /\ bff.result.historical_predictions = None
      THEN bff.result.status = "error" /\ "error" \in DOMAIN bff.result
      ELSE bff.result.status = "success"

\* C22: no step of the retrieval changes the prediction store.
C22_RetrievalLeavesStore ==
  [][bff' # bff => iss_loc_predictions' = iss_loc_predictions]_vars

\* a call over a store that holds batches has returned, one horizon
\* having looked up a key under which nothing is stored
C22_Witness ==
  /\ bff.pc = "done"
  /\ bff.result.status = "success"
  /\ iss_loc_predictions # {}
  /\ bff.historical.pc = "done"
  /\ \E h \in Horizons :
       bff.historical.read_ok[h] /\ DocsAt(bff.historical.rounded[h]) = {}

\* C25: for each horizon h whose batch exists and was read, the list
\* begins with the batch's point of 5 minutes after the bucket, and holds
\* every later point of the batch up to now.
C25_HistoricalStartsAtHorizon ==
  (HistoricalReturned /\ bff.historical.result # None) =>
    \A h \in Horizons :
      LET t      == bff.historical
          bucket == BucketOf(t.current_time, h)
          list   == ListOf(t.result, h)
      IN  (/\ t.read_ok[h]
           /\ DocsAt(bucket) # {}
           /\ DocsAt(bucket) \subseteq GeneratedBatches)
          => /\ list # <<>>
             /\ list[1].timestamp = bucket + 5 * 60
             /\ {e.timestamp : e \in Elems(list)} =
                  {bucket + m * 60 : m \in {n \in Elems(MinutesAhead) :
                                              bucket + n * 60 <= t.current_time}}

\* C26: get_all_predictions_data returns with status success only after
\* both tasks have finished, whatever the timeouts put into the slots.
C26_ReturnsAfterBothTasks ==
  (bff.pc = "done" /\ bff.result.status = "success") =>
    /\ bff.current.pc = "done"
    /\ bff.historical.pc = "done"

\* both result() calls timed out and left None; the call returned once the
\* tasks had finished with results of their own
C26_Witness ==
  /\ bff.pc = "done"
  /\ bff.result.status = "success"
  /\ bff.result.predictions = None
  /\ bff.result.historical_predictions = None
  /\ bff.current.pc = "done" /\ bff.current.result # None
  /\ bff.historical.pc = "done" /\ bff.historical.result # None

\* C30: when all lookups go through, get_historical_predictions of
\* iss_api_bff_web_predictions returns the three lists that
\* get_historical_predictions of iss_api_bff_web returns for the same now
\* and the same store.
C30_HistoricalImplementationsAgree ==
  (/\ HistoricalReturned
   /\ bff.historical.result # None
   /\ \A h \in Horizons : bff.historical.read_ok[h])
  => bff.historical.result =
       bff_web_get_historical_predictions(bff.historical.current_time,
                                          [h \in Horizons |-> TRUE])

----------------------------------------------------------------------------
(* Properties of the previous fix and of the ingestion (Spec)              *)

\* C27: the previous fix of an invocation is the most recent history entry
\* strictly before the source timestamp and no other; when that entry is an
\* error entry (latitude null) the invocation returns an error, has computed
\* nothing and the store holds no batch, also when an earlier entry of the
\* history is a valid ground fix.
C27_OnlyMostRecentEntryIsUsed ==
  /\ [][\A p \in Procs :
          (inv[p].pc = "get_previous_location" /\ inv'[p].previous_location # None) =>
            /\ \E d \in Before(inv[p].req.timestamp) :
                 /\ d.data.timestamp = inv'[p].previous_location.timestamp
                 /\ d.data.latitude = inv'[p].previous_location.latitude
            /\ \A d \in Before(inv[p].req.timestamp) :
                 d.data.timestamp <= inv'[p].previous_location.timestamp]_vars
  /\ [](\A p \in Procs :
          (/\ inv[p].previous_location # None
           /\ inv[p].previous_location.latitude = NoNumber) =>
            /\ Returned(p)
            /\ IsError(inv[p].result)
            /\ NothingProduced(p)
            /\ iss_loc_predictions = {})

\* the most recent entry is an error entry, an earlier one a ground fix
C27_Witness ==
  \E p \in Procs :
    /\ Returned(p)
    /\ inv[p].previous_location # None
    /\ inv[p].previous_location.latitude = NoNumber
    /\ IsError(inv[p].result)
    /\ \E d \in Before(inv[p].req.timestamp) :
         /\ ~d.data.is_error_entry
         /\ d.data.timestamp < inv[p].previous_location.timestamp

\* C29: one invocation of store_iss_location adds at most one document to
\* iss_loc_history.
C29_AtMostOneDocumentPerRun ==
  [][Cardinality(iss_loc_history') <= Cardinality(iss_loc_history) + 1]_vars

----------------------------------------------------------------------------
(* Properties of normalize_longitude (SpecNormalize)                       *)

\* C23: every call of normalize_longitude with a finite longitude returns,
\* and what it returns lies in [-180, 180], differs from the argument by a
\* multiple of 360, and is the argument when that is already in range.
C23_NormalizeTerminatesInRange ==
  /\ <>(call.pc = "done")
  /\ [](call.pc = "done" =>
          /\ call.lon.huge = 0
          /\ call.lon.v >= -18000
          /\ call.lon.v <= 18000
          /\ (call.lon.v - call.arg.v) % 36000 = 0
          /\ (call.arg.v >= -18000 /\ call.arg.v <= 18000) => call.lon = call.arg)

----------------------------------------------------------------------------
(* Properties of calculate_orbital_phase (SpecPhase)                       *)

\* the call has returned
PhaseReturned == call.fn = "calculate_orbital_phase" /\ call.pc = "done"

\* the phase the call returned, in whole degrees
Phase == call.phase[1]

\* inclination * sin(phase), in hundredths of a degree
LatitudeOf(phase, inclination) == Quot(inclination * SinDeg(phase), 10000)

\* what one degree of phase, the resolution of the angles, is worth in
\* latitude at most, with one hundredth for each of the two quotients
Resolution(inclination) == (inclination * 175) \div 10000 + 2

\* the parts of C24 that do not depend on the branch: the phase lies in
\* [0, 360); a latitude within the inclination is reproduced by
\* inclination * sin(phase), and one beyond it gives +-inclination
PhaseInverts ==
  /\ Phase >= 0
  /\ Phase < 360
  /\ Abs(call.current_lat) <= call.inclination =>
       Abs(LatitudeOf(Phase, call.inclination) - call.current_lat)
         <= Resolution(call.inclination)
  /\ call.current_lat > call.inclination =>
       LatitudeOf(Phase, call.inclination) = call.inclination
  /\ call.current_lat < -call.inclination =>
       LatitudeOf(Phase, call.inclination) = -call.inclination

----------------------------------------------------------------------------
(* Properties of the keys (SpecKeys)                                       *)

\* C28: when the instant a lookup starts from and the timestamp of a ground
\* fix lie in the same 5-minute bucket, the key the lookup reads is the key
\* the batch of that fix was stored under; rounding twice gives the key
\* that rounding once gives.
C28_ReadKeyIsStoredKey ==
  (call.fn = "keys" /\ call.read_key # None) =>
    /\ call.read_key = bff_round_iso_timestamp_to_5_minutes(call.t)
    /\ bff_round_iso_timestamp_to_5_minutes(call.read_key) = call.read_key
    /\ (call.stored_key # None /\ Floor5(call.t.t) = Floor5(call.s.t)) =>
         call.read_key = call.stored_key

\* the two timestamps are different strings of one bucket, neither of
\* them the key
C28_Witness ==
  /\ call.fn = "keys"
  /\ call.read_key # None
  /\ call.stored_key # None
  /\ call.read_key = call.stored_key
  /\ call.t.t # call.s.t
  /\ call.t.micro # 0
  /\ call.s.suffix = "Z"
  /\ call.t.t # call.read_key.t
  /\ call.s.t # call.read_key.t

====
